---- MODULE Spec2Model ----
(***************************************************************************)
(* A model of git-annex-remote-synology: the credential resolver           *)
(* (credentials.py), the remote tree adapter (nas.py), the special remote  *)
(* (synology_remote.py) and the setup command (run.py).                    *)
(*                                                                         *)
(* Strings that hold paths are modelled by the sequence str.split("/")     *)
(* gives: "" is <<"">>, "/" is <<"", "">>, "/v/annex" is                   *)
(* <<"", "v", "annex">>.  Python's None is the value None below; None and  *)
(* the empty string are the two falsy values of the code's truth tests.    *)
(*                                                                         *)
(* The vendor API (synology_api.FileStation), the keyring, the sqlite      *)
(* database and the local file system are the environment.  Each handler   *)
(* draws, with \E, how the vendor answers the calls it makes: a call       *)
(* succeeds, returns an unsuccessful result, or raises.                    *)
(***************************************************************************)
EXTENDS Integers, Sequences, FiniteSets, TLC

\* ---------------------------------------------------------------- bounds

\* Lifecycle and setup operations in one behaviour.
MaxOps == 2

\* Calls of the resolver inside one Credentials scope.
MaxCalls == 3

\* Stands for the interpreter's recursion limit: a call chain deeper than
\* this raises RecursionError.  Every terminating chain of the resolver is
\* shorter.
RecursionLimit == 14

\* ---------------------------------------------------------------- values

None == "<None>"

Truthy(x) == x # None /\ x # ""

\* Exceptions, by class name; "none" when a call returned.
NoExc == "none"

\* ---------------------------------------------------------------- paths

RootEmpty == <<"">>

RootSlash == <<"", "">>

\* nas.py: path == "/" or path == ""
IsRoot(path) == path = RootSlash \/ path = RootEmpty

\* nas.py: "/".join(path.split("/")[:-1])
Parent(path) == IF Len(path) <= 1 THEN RootEmpty ELSE SubSeq(path, 1, Len(path) - 1)

\* nas.py: path.split("/")[-1]
Folder(path) == path[Len(path)]

\* f"{a}/{b}" for a name b without a slash
Slash(a, b) == a \o <<b>>

\* The names the vendor lists, in the order it lists them.
ListingOrder == <<"v", "annex", "k1", "k2", "f1", "f2">>

Keys == {"k1", "k2"}

LocalFiles == {"f1", "f2"}

\* ------------------------------------------------------- the vendor API

\* How the vendor answers the calls of one handler.
\*   listBad, listMode    the directory whose listing fails, and how
\*   createBad, createMode the directory whose creation fails, and how
\*   upload, download, delete, login, totpRun: the outcome of that call
NoPath == <<>>

\* self._filestation is None
NoFileStation == [username |-> None, password |-> None, secure |-> FALSE, otp |-> None]

Ok(v) == [exc |-> NoExc, val |-> v]

Raise(e) == [exc |-> e, val |-> None]

\* Entries of directory d, in listing order.
Children(rem, d) ==
  LET here(n) == Slash(d, n) \in rem.dirs \cup rem.files
      names == SelectSeq(ListingOrder, here)
  IN  [i \in 1..Len(names) |->
         [path |-> Slash(d, names[i]), isdir |-> Slash(d, names[i]) \in rem.dirs]]

\* filestation.get_list_share(): the result dict, or an exception.
VendorListShare(fs, rem, orc) ==
  IF fs = NoFileStation THEN Raise("AttributeError")
  ELSE IF orc.listBad = RootEmpty /\ orc.listMode = "raise" THEN Raise("VendorError")
  ELSE IF orc.listBad = RootEmpty THEN Ok([success |-> FALSE, entries |-> <<>>])
  ELSE Ok([success |-> TRUE, entries |-> Children(rem, RootEmpty)])

\* filestation.get_file_list(path)
VendorFileList(fs, path, rem, orc) ==
  IF fs = NoFileStation THEN Raise("AttributeError")
  ELSE IF orc.listBad = path /\ orc.listMode = "raise" THEN Raise("VendorError")
  ELSE IF orc.listBad = path \/ path \notin rem.dirs
    THEN Ok([success |-> FALSE, entries |-> <<>>])
  ELSE Ok([success |-> TRUE, entries |-> Children(rem, path)])

\* filestation.create_folder(parent, folder): the result and the tree after.
VendorCreateFolder(fs, parent, folder, rem, orc) ==
  LET new == Slash(parent, folder) IN
  IF fs = NoFileStation THEN [exc |-> "AttributeError", success |-> FALSE, rem |-> rem]
  ELSE IF orc.createBad = new /\ orc.createMode = "raise"
    THEN [exc |-> "VendorError", success |-> FALSE, rem |-> rem]
  ELSE IF orc.createBad = new \/ ~(IsRoot(parent) \/ parent \in rem.dirs)
            \/ new \in rem.files
    THEN [exc |-> NoExc, success |-> FALSE, rem |-> rem]
  ELSE [exc |-> NoExc, success |-> TRUE,
        rem |-> [rem EXCEPT !.dirs = @ \cup {new}]]

\* ---------------------------------------------------------------- nas.py

PathsOf(entries) == [i \in 1..Len(entries) |-> entries[i].path]

Contains(seq, x) == \E i \in 1..Len(seq) : seq[i] = x

RECURSIVE ExistsCall(_, _, _, _)
RECURSIVE Exists(_, _, _, _)
RECURSIVE ListStructure(_, _, _, _, _)
RECURSIVE ExpandDirs(_, _, _, _, _)

\* NAS.exists with "except Exception as ex: ... raise ex" in place of
\* "return False": what the try statement caught leaves exists.
ExistsReraise(exc) == exc

\* NAS.exists, lines 130-132: "except Exception" catches whatever the try
\* statement raised and exists returns False.  The value is what leaves
\* exists.
ExistsExcept(exc) == NoExc

\* NAS.exists: what it raises (nothing) and what it returns.
ExistsCall(fs, path, rem, orc) ==
  IF IsRoot(path) THEN Ok(TRUE)
  ELSE
    LET after(structure) ==
          IF structure.exc # NoExc THEN [exc |-> ExistsExcept(structure.exc), val |-> FALSE]
          ELSE IF Len(structure.val) = 0 THEN Ok(FALSE)
          ELSE Ok(Contains(structure.val, path))
    IN  after(ListStructure(fs, Parent(path), FALSE, rem, orc))

\* The value of self.exists(path) where the code tests it.
Exists(fs, path, rem, orc) == ExistsCall(fs, path, rem, orc).val

\* The loop of NAS.list_structure: for directory in dirs: structure.extend(...)
ExpandDirs(fs, dirs, structure, rem, orc) ==
  IF Len(dirs) = 0 THEN Ok(structure)
  ELSE
    LET after(sub) ==
          IF sub.exc # NoExc THEN sub
          ELSE ExpandDirs(fs, Tail(dirs), structure \o sub.val, rem, orc)
    IN  after(ListStructure(fs, Head(dirs), TRUE, rem, orc))

\* NAS.list_structure
ListStructure(fs, path, recursive, rem, orc) ==
  IF ~Exists(fs, path, rem, orc) THEN Ok(<<>>)
  ELSE IF IsRoot(path) THEN
    LET shares(result) ==
          IF result.exc # NoExc THEN result
          ELSE IF result.val.success THEN
            \* the root branch reads "dirs" before any assignment to it
            IF recursive THEN Raise("UnboundLocalError")
            ELSE Ok(PathsOf(result.val.entries))
          ELSE Ok(<<>>)
    IN  shares(VendorListShare(fs, rem, orc))
  ELSE
    LET isdir(e) == e.isdir
        listed(result) ==
          IF result.exc # NoExc THEN result
          ELSE IF result.val.success THEN
            IF recursive
              THEN ExpandDirs(fs, PathsOf(SelectSeq(result.val.entries, isdir)),
                              PathsOf(result.val.entries), rem, orc)
            ELSE Ok(PathsOf(result.val.entries))
          ELSE Ok(<<>>)
    IN  listed(VendorFileList(fs, path, rem, orc))

RECURSIVE CreateFolder(_, _, _, _)

\* NAS.create_folder without "if self.exists(path): return True" for any
\* path but the root: every call requests the whole chain again.
CreateFolderAlways(fs, path, rem, orc) ==
  IF IsRoot(path) THEN [exc |-> NoExc, ret |-> TRUE, rem |-> rem, reqs |-> <<>>]
  ELSE
    LET created(up, result) ==
          [exc |-> result.exc, ret |-> result.exc = NoExc /\ result.success,
           rem |-> result.rem, reqs |-> Append(up.reqs, Slash(Parent(path), Folder(path)))]
        after(up) ==
          IF up.exc # NoExc THEN up
          ELSE IF ~up.ret THEN [up EXCEPT !.ret = FALSE]
          ELSE created(up, VendorCreateFolder(fs, Parent(path), Folder(path), up.rem, orc))
    IN  after(CreateFolder(fs, Parent(path), rem, orc))

\* NAS.create_folder without "if not self.create_folder(parent): return
\* False": the leaf is requested although its parent could not be created.
CreateFolderNoShortCircuit(fs, path, rem, orc) ==
  IF Exists(fs, path, rem, orc)
    THEN [exc |-> NoExc, ret |-> TRUE, rem |-> rem, reqs |-> <<>>]
  ELSE
    LET created(up, result) ==
          [exc |-> result.exc, ret |-> result.exc = NoExc /\ result.success,
           rem |-> result.rem, reqs |-> Append(up.reqs, Slash(Parent(path), Folder(path)))]
        after(up) ==
          IF up.exc # NoExc THEN up
          ELSE created(up, VendorCreateFolder(fs, Parent(path), Folder(path), up.rem, orc))
    IN  after(CreateFolder(fs, Parent(path), rem, orc))

\* NAS.create_folder: the return value, the tree after, and the
\* create-directory requests issued to the vendor, in order.
CreateFolder(fs, path, rem, orc) ==
  IF Exists(fs, path, rem, orc)
    THEN [exc |-> NoExc, ret |-> TRUE, rem |-> rem, reqs |-> <<>>]
  ELSE
    LET parent == Parent(path)
        folder == Folder(path)
        created(up, result) ==
          [exc |-> result.exc, ret |-> result.exc = NoExc /\ result.success,
           rem |-> result.rem,
           reqs |-> IF fs = NoFileStation THEN up.reqs
                    ELSE Append(up.reqs, Slash(parent, folder))]
        after(up) ==
          IF up.exc # NoExc THEN up
          ELSE IF ~up.ret THEN [up EXCEPT !.ret = FALSE]
          ELSE created(up, VendorCreateFolder(fs, parent, folder, up.rem, orc))
    IN  after(CreateFolder(fs, parent, rem, orc))

\* -------------------------------------------------------- credentials.py

\* The state a Credentials object works on: its _username field (cache),
\* the Users row of its hostname (db: <<>> or <<row>>) and the keyring
\* entries of its service id (vault: account -> password or None).
\* inp holds the process environment, the headless flag, what the user
\* types at a prompt and whether the TOTP command runs successfully.

Users == {"u1", "u2"}

NoRow == <<>>

COk(v, st) == [exc |-> NoExc, val |-> v, st |-> st]

CRaise(e, st) == [exc |-> e, val |-> None, st |-> st]

\* Credentials.__init__ followed by __enter__ on a database that answers:
\* _username is None.  reads counts the SELECTs of the username, afterFill
\* those made while _username held a user name.
NewCredentials(w) ==
  [cache |-> None, db |-> w.db, vault |-> w.vault, reads |-> 0, afterFill |-> 0]

\* Credentials._save_username: the upsert of the hostname's row
SaveUsername(st, username, totp_command) ==
  [st EXCEPT !.db = <<[username |-> username,
                       totp_command |-> IF Truthy(totp_command) THEN totp_command ELSE ""]>>]

\* Credentials._prompt_username
PromptUsername(st, inp) ==
  IF inp.headless THEN CRaise("RemoteError", st) ELSE COk(inp.promptUser, st)

\* Credentials._prompt_password
PromptPassword(st, inp) ==
  IF inp.headless THEN CRaise("RemoteError", st) ELSE COk(inp.promptPass, st)

RECURSIVE UsernameGet(_, _, _)
RECURSIVE UsernameSet(_, _, _, _)
RECURSIVE GetUsername(_, _, _)
RECURSIVE TotpCommandGet(_, _, _)
RECURSIVE TotpCommandSet(_, _, _, _)
RECURSIVE GetTotpCommand(_, _, _)

\* In the definitions below, "LET after(r) == ... IN after(Call(...))" reads
\* "r = Call(...); ...": the call is made once and r names its result.

\* Credentials.username (getter)
UsernameGet(st, inp, d) ==
  IF d > RecursionLimit THEN CRaise("RecursionError", st)
  ELSE
    LET saved(set, username) ==
          IF set.exc # NoExc THEN set
          ELSE IF Truthy(username) THEN COk(username, set.st)
          ELSE CRaise("RemoteError", set.st)
        prompted(asked) ==
          IF asked.exc # NoExc THEN asked
          ELSE saved(UsernameSet(asked.st, asked.val, inp, d + 1), asked.val)
        after(got) ==
          IF got.exc # NoExc THEN got
          ELSE IF ~Truthy(got.val) THEN prompted(PromptUsername(got.st, inp))
          ELSE COk(got.val, got.st)
    IN  after(GetUsername(st, inp, d + 1))

\* Credentials.username (setter)
UsernameSet(st, username, inp, d) ==
  IF d > RecursionLimit THEN CRaise("RecursionError", st)
  ELSE
    LET after(cmd) ==
          IF cmd.exc # NoExc THEN cmd
          ELSE COk(None, [SaveUsername(cmd.st, username, cmd.val) EXCEPT !.cache = username])
    IN  after(TotpCommandGet(st, inp, d + 1))

\* Credentials._get_username without "elif self._username: return
\* self._username": the row is read although a user name is cached.
GetUsernameNoCache(st, inp, d) ==
  IF d > RecursionLimit THEN CRaise("RecursionError", st)
  ELSE IF Truthy(inp.env.user) THEN
    LET after(set) == IF set.exc # NoExc THEN set ELSE COk(inp.env.user, set.st)
    IN  after(UsernameSet(st, inp.env.user, inp, d + 1))
  ELSE COk(IF st.db # NoRow THEN st.db[1].username ELSE None,
           [st EXCEPT !.reads = @ + 1,
                      !.afterFill = IF Truthy(st.cache) THEN @ + 1 ELSE @])

\* Credentials._get_username
GetUsername(st, inp, d) ==
  IF d > RecursionLimit THEN CRaise("RecursionError", st)
  ELSE IF Truthy(inp.env.user) THEN
    LET after(set) == IF set.exc # NoExc THEN set ELSE COk(inp.env.user, set.st)
    IN  after(UsernameSet(st, inp.env.user, inp, d + 1))
  ELSE IF Truthy(st.cache) THEN COk(st.cache, st)
  ELSE COk(IF st.db # NoRow THEN st.db[1].username ELSE None,
           [st EXCEPT !.reads = @ + 1,
                      !.afterFill = IF Truthy(st.cache) THEN @ + 1 ELSE @])

\* Credentials.totp_command (getter)
TotpCommandGet(st, inp, d) ==
  IF d > RecursionLimit THEN CRaise("RecursionError", st)
  ELSE GetTotpCommand(st, inp, d + 1)

\* Credentials.totp_command (setter)
TotpCommandSet(st, totp_command, inp, d) ==
  IF d > RecursionLimit THEN CRaise("RecursionError", st)
  ELSE
    LET after(who) ==
          IF who.exc # NoExc THEN who
          ELSE COk(None, SaveUsername(who.st, who.val, totp_command))
    IN  after(UsernameGet(st, inp, d + 1))

\* Credentials._get_totp_command
GetTotpCommand(st, inp, d) ==
  IF d > RecursionLimit THEN CRaise("RecursionError", st)
  ELSE IF Truthy(inp.env.totp) THEN
    LET after(set) == IF set.exc # NoExc THEN set ELSE COk(inp.env.totp, set.st)
    IN  after(TotpCommandSet(st, inp.env.totp, inp, d + 1))
  ELSE COk(IF st.db # NoRow THEN st.db[1].totp_command ELSE None, st)

\* Credentials._save_password keeping the password in the Users row as
\* well as in the keyring.
SavePasswordInRow(st, password, inp, d) ==
  LET after(who) ==
        IF who.exc # NoExc THEN who
        ELSE COk(None, [who.st EXCEPT !.vault[who.val] = password,
                                      !.db = <<[username |-> who.val,
                                                totp_command |-> password]>>])
  IN  after(UsernameGet(st, inp, d + 1))

\* Credentials._save_password (and the password setter, which only calls it)
SavePassword(st, password, inp, d) ==
  LET after(who) ==
        IF who.exc # NoExc THEN who
        ELSE COk(None, [who.st EXCEPT !.vault[who.val] = password])
  IN  after(UsernameGet(st, inp, d + 1))

\* Credentials._get_password
GetPassword(st, inp, d) ==
  IF Truthy(inp.env.pass) THEN
    LET after(set) == IF set.exc # NoExc THEN set ELSE COk(inp.env.pass, set.st)
    IN  after(SavePassword(st, inp.env.pass, inp, d + 1))
  ELSE
    LET after(who) == IF who.exc # NoExc THEN who ELSE COk(who.st.vault[who.val], who.st)
    IN  after(UsernameGet(st, inp, d + 1))

\* Credentials.password (getter)
PasswordGet(st, inp, d) ==
  LET saved(set, password) ==
        IF set.exc # NoExc THEN set
        ELSE IF Truthy(password) THEN COk(password, set.st)
        ELSE CRaise("RemoteError", set.st)
      prompted(asked) ==
        IF asked.exc # NoExc THEN asked
        ELSE saved(SavePassword(asked.st, asked.val, inp, d + 1), asked.val)
      after(got) ==
        IF got.exc # NoExc THEN got
        ELSE IF ~Truthy(got.val) THEN prompted(PromptPassword(got.st, inp))
        ELSE COk(got.val, got.st)
  IN  after(GetPassword(st, inp, d + 1))

\* Credentials.totp: the command is read twice, then run with check=True
Totp(st, inp, d) ==
  LET run(again) ==
        IF again.exc # NoExc THEN again
        ELSE IF inp.totpRun = "ok" THEN COk("otp", again.st)
        ELSE CRaise("CalledProcessError", again.st)
      after(cmd) ==
        IF cmd.exc # NoExc THEN cmd
        ELSE IF Truthy(cmd.val) THEN run(TotpCommandGet(cmd.st, inp, d + 1))
        ELSE COk(None, cmd.st)
  IN  after(TotpCommandGet(st, inp, d + 1))

\* Credentials.delete_password forgetting the Users row as well.
DeletePasswordAndRow(st, inp, d) ==
  LET after(who) ==
        IF who.exc # NoExc THEN who
        ELSE IF who.st.vault[who.val] = None THEN CRaise("PasswordDeleteError", who.st)
        ELSE COk(None, [who.st EXCEPT !.vault[who.val] = None, !.db = NoRow])
  IN  after(UsernameGet(st, inp, d + 1))

\* Credentials.delete_password
DeletePassword(st, inp, d) ==
  LET after(who) ==
        IF who.exc # NoExc THEN who
        ELSE IF who.st.vault[who.val] = None THEN CRaise("PasswordDeleteError", who.st)
        ELSE COk(None, [who.st EXCEPT !.vault[who.val] = None])
  IN  after(UsernameGet(st, inp, d + 1))

\* ------------------------------------------------- synology_remote.py

\* backend: the fields of SynologyRemote.  _nas is unbound (None) until
\* _authenticate assigns NAS(self._filestation, ...).
NewBackend ==
  [filestation |-> NoFileStation,
   nas |-> [bound |-> FALSE, filestation |-> NoFileStation],
   hostname |-> None, protocol |-> None, path |-> NoPath]

DEFAULT_PROTOCOL == "http"

\* SynologyRemote.hostname: _get_or_error("hostname"), cached
HostnameProp(b, conf) ==
  IF b.hostname # None THEN [exc |-> NoExc, val |-> b.hostname, b |-> b]
  ELSE IF Truthy(conf.hostname)
    THEN [exc |-> NoExc, val |-> conf.hostname, b |-> [b EXCEPT !.hostname = conf.hostname]]
  ELSE [exc |-> "RemoteError", val |-> None, b |-> b]

\* SynologyRemote.protocol: the value is cached before it is validated
ProtocolProp(b, conf) ==
  LET value == IF b.protocol # None THEN b.protocol
               ELSE IF Truthy(conf.protocol) THEN conf.protocol ELSE DEFAULT_PROTOCOL
      nb == [b EXCEPT !.protocol = value]
  IN  IF value \notin {"http", "https"} THEN [exc |-> "RemoteError", val |-> None, b |-> nb]
      ELSE [exc |-> NoExc, val |-> value, b |-> nb]

\* SynologyRemote.path: _get_or_error("path"), cached
PathProp(b, conf) ==
  IF b.path # NoPath THEN [exc |-> NoExc, val |-> b.path, b |-> b]
  ELSE IF conf.path # RootEmpty
    THEN [exc |-> NoExc, val |-> conf.path, b |-> [b EXCEPT !.path = conf.path]]
  ELSE [exc |-> "RemoteError", val |-> NoPath, b |-> b]

\* FileStation(...): the vendor's login
VendorLogin(username, password, secure, otp, orc) ==
  IF orc.login = "ok"
    THEN [exc |-> NoExc,
          fs |-> [username |-> username, password |-> password, secure |-> secure, otp |-> otp]]
  ELSE [exc |-> "VendorError", fs |-> NoFileStation]

\* The body of the with statement of SynologyRemote._authenticate (lines
\* 161-186): what it raised, the resolver state it leaves, the session.
\* first is the outcome of the first read of creds.username.
AuthBody(b, conf, st, inp, orc) ==
  LET out(first, exc, st2, b2, fs) ==
        [exc |-> exc, st |-> st2, b |-> b2, fs |-> fs,
         first |-> [exc |-> first.exc, val |-> first.val, row |-> first.st.db]]
      s9(u1, u3, p2, pr2, otp, login) == out(u1, login.exc, otp.st, pr2.b, login.fs)
      s8(u1, u3, p2, pr2, otp) ==
        IF otp.exc # NoExc THEN out(u1, otp.exc, otp.st, pr2.b, NoFileStation)
        ELSE s9(u1, u3, p2, pr2, otp,
                VendorLogin(u3.val, p2.val, pr2.val = "https", otp.val, orc))
      s7(u1, u3, p2, pr2) ==
        IF pr2.exc # NoExc THEN out(u1, pr2.exc, p2.st, pr2.b, NoFileStation)
        ELSE s8(u1, u3, p2, pr2, Totp(p2.st, inp, 1))
      s6(u1, pr1, u3, p2) ==
        IF p2.exc # NoExc THEN out(u1, p2.exc, p2.st, pr1.b, NoFileStation)
        ELSE s7(u1, u3, p2, ProtocolProp(pr1.b, conf))
      s5(u1, pr1, u3) ==
        IF u3.exc # NoExc THEN out(u1, u3.exc, u3.st, pr1.b, NoFileStation)
        ELSE s6(u1, pr1, u3, PasswordGet(u3.st, inp, 1))
      s4(u1, u2, pr1) ==
        IF pr1.exc # NoExc THEN out(u1, pr1.exc, u2.st, pr1.b, NoFileStation)
        ELSE s5(u1, pr1, UsernameGet(u2.st, inp, 1))
      s3(u1, u2) ==
        IF u2.exc # NoExc THEN out(u1, u2.exc, u2.st, b, NoFileStation)
        ELSE s4(u1, u2, ProtocolProp(b, conf))
      s2(u1, p1) ==
        IF p1.exc # NoExc THEN out(u1, p1.exc, p1.st, b, NoFileStation)
        ELSE s3(u1, UsernameGet(p1.st, inp, 1))
      s1(u1) ==
        IF u1.exc # NoExc THEN out(u1, u1.exc, u1.st, b, NoFileStation)
        ELSE s2(u1, PasswordGet(u1.st, inp, 1))
  IN  s1(UsernameGet(st, inp, 1))

NoFirst == [exc |-> "unread", val |-> None, row |-> NoRow]

\* Credentials.__exit__ returns True: whatever the body raised is swallowed.
\* The value is what leaves the with statement.
CredentialsExit(exc) == NoExc

\* The adapter is created once and kept ("if self._nas is None"): one bound
\* to None after a failed attempt is never rebound.
BindNasOnce(b, fs) ==
  [b EXCEPT !.filestation = fs,
            !.nas = IF b.nas.bound THEN b.nas ELSE [bound |-> TRUE, filestation |-> fs]]

\* SynologyRemote._authenticate, lines 174 and 191: the session is kept and
\* a new NAS is bound to it (to None when the body was left without one).
BindNas(b, fs) ==
  [b EXCEPT !.filestation = fs, !.nas = [bound |-> TRUE, filestation |-> fs]]

\* SynologyRemote._authenticate, lines 156-191: the branch taken when there
\* is no session.  w is [db, vault].
\*   attempt: "config" (hostname missing), "failed" (the body raised),
\*            "built" (a session was constructed)
Login(b, conf, w, inp, orc) ==
  LET left(body) ==
        LET nw == [db |-> body.st.db, vault |-> body.st.vault] IN
        IF CredentialsExit(body.exc) # NoExc
          THEN [exc |-> CredentialsExit(body.exc), b |-> body.b, w |-> nw,
                attempt |-> "failed", swallowed |-> NoExc, first |-> body.first]
        ELSE [exc |-> NoExc, b |-> BindNas(body.b, body.fs), w |-> nw,
              attempt |-> IF body.exc = NoExc THEN "built" ELSE "failed",
              swallowed |-> body.exc, first |-> body.first]
      after(host) ==
        IF host.exc # NoExc
          THEN [exc |-> host.exc, b |-> b, w |-> w, attempt |-> "config",
                swallowed |-> NoExc, first |-> NoFirst]
        ELSE left(AuthBody(host.b, conf, NewCredentials(w),
                           inp, orc))
  IN  after(HostnameProp(b, conf))

\* _authenticate without "if self._filestation is None": every operation
\* logs in again.
AuthenticateAlways(b, conf, w, inp, orc) == Login(b, conf, w, inp, orc)

\* SynologyRemote._authenticate: nothing happens once a session exists
\* (attempt "skipped").
Authenticate(b, conf, w, inp, orc) ==
  IF b.filestation # NoFileStation
    THEN [exc |-> NoExc, b |-> b, w |-> w, attempt |-> "skipped", swallowed |-> NoExc,
          first |-> NoFirst]
  ELSE Login(b, conf, w, inp, orc)

\* filestation.upload_file(folder, local_file): open(local_file) fails for
\* a missing file; an unsuccessful upload returns without raising.
VendorUpload(fs, folder, file, rem, loc, orc) ==
  IF fs = NoFileStation THEN [exc |-> "AttributeError", rem |-> rem]
  ELSE IF loc[file] = "absent" THEN [exc |-> "FileNotFoundError", rem |-> rem]
  ELSE IF orc.upload = "raise" THEN [exc |-> "VendorError", rem |-> rem]
  ELSE IF orc.upload = "unsuccessful" \/ folder \notin rem.dirs
    THEN [exc |-> NoExc, rem |-> rem]
  ELSE [exc |-> NoExc, rem |-> [rem EXCEPT !.files = @ \cup {Slash(folder, file)}]]

\* filestation.get_file(path, "download", dest_path=target_dir): the vendor
\* writes target_dir/<name of path> as the bytes arrive.
VendorGetFile(fs, path, rem, loc, orc) ==
  IF fs = NoFileStation THEN [exc |-> "AttributeError", loc |-> loc]
  ELSE IF orc.download = "early" \/ path \notin rem.files
    THEN [exc |-> "VendorError", loc |-> loc]
  ELSE IF orc.download = "mid"
    THEN [exc |-> "VendorError", loc |-> [loc EXCEPT ![Folder(path)] = "partial"]]
  ELSE [exc |-> NoExc, loc |-> [loc EXCEPT ![Folder(path)] = "complete"]]

\* filestation.start_delete_task(files): an accepted task runs later.
VendorStartDelete(fs, path, rem, orc) ==
  IF fs = NoFileStation THEN [exc |-> "AttributeError", success |-> FALSE, rem |-> rem]
  ELSE IF orc.delete = "raise" THEN [exc |-> "VendorError", success |-> FALSE, rem |-> rem]
  ELSE IF orc.delete = "unsuccessful" THEN [exc |-> NoExc, success |-> FALSE, rem |-> rem]
  ELSE [exc |-> NoExc, success |-> TRUE, rem |-> [rem EXCEPT !.pending = @ \cup {path}]]

\* NAS.delete_files
DeleteFiles(fs, path, rem, orc) ==
  LET result == VendorStartDelete(fs, path, rem, orc) IN
  [exc |-> result.exc, ret |-> result.exc = NoExc /\ result.success, rem |-> result.rem]

\* What a handler hands back: the exception it raised to the host (or
\* "none"), its return value, the state it leaves, and what it did.
Outcome(exc, ret, auth, b, rem, loc, reqs) ==
  [exc |-> exc, ret |-> ret, auth |-> auth, b |-> b, w |-> auth.w, rem |-> rem, loc |-> loc,
   reqs |-> reqs]

\* SynologyRemote.initremote
Initremote(b, conf, w, rem, loc, inp, orc) ==
  LET after(auth) == Outcome(auth.exc, FALSE, auth, auth.b, rem, loc, <<>>)
  IN  after(Authenticate(b, conf, w, inp, orc))

\* SynologyRemote.prepare
Prepare(b, conf, w, rem, loc, inp, orc) ==
  LET folder(auth, path, made) ==
        IF made.exc # NoExc
          THEN Outcome(made.exc, FALSE, auth, path.b, made.rem, loc, made.reqs)
        ELSE IF ~made.ret
          THEN Outcome("RemoteError", FALSE, auth, path.b, made.rem, loc, made.reqs)
        ELSE Outcome(NoExc, TRUE, auth, path.b, made.rem, loc, made.reqs)
      rooted(auth, path) ==
        IF path.exc # NoExc THEN Outcome(path.exc, FALSE, auth, path.b, rem, loc, <<>>)
        ELSE folder(auth, path, CreateFolder(path.b.nas.filestation, path.val, rem, orc))
      after(auth) ==
        IF auth.exc # NoExc THEN Outcome(auth.exc, FALSE, auth, auth.b, rem, loc, <<>>)
        ELSE rooted(auth, PathProp(auth.b, conf))
  IN  after(Authenticate(b, conf, w, inp, orc))

\* SynologyRemote.transfer_store: the result of create_folder is dropped
TransferStore(b, conf, w, rem, loc, key, local_file, inp, orc) ==
  LET upload(auth, path, made, sent) ==
        Outcome(sent.exc, made.ret, auth, path.b, sent.rem, loc, made.reqs)
      folder(auth, path, made) ==
        IF made.exc # NoExc
          THEN Outcome(made.exc, FALSE, auth, path.b, made.rem, loc, made.reqs)
        ELSE upload(auth, path, made,
                    VendorUpload(path.b.nas.filestation, Slash(path.val, key), local_file,
                                 made.rem, loc, orc))
      rooted(auth, path) ==
        IF path.exc # NoExc THEN Outcome(path.exc, FALSE, auth, path.b, rem, loc, <<>>)
        ELSE folder(auth, path,
                    CreateFolder(path.b.nas.filestation, Slash(path.val, key), rem, orc))
      after(auth) ==
        IF auth.exc # NoExc THEN Outcome(auth.exc, FALSE, auth, auth.b, rem, loc, <<>>)
        ELSE rooted(auth, PathProp(auth.b, conf))
  IN  after(Authenticate(b, conf, w, inp, orc))

\* SynologyRemote.transfer_retrieve: the remote name is the local name and
\* the download is written into the directory of local_file.  reqs is the
\* download request made of the vendor.
TransferRetrieve(b, conf, w, rem, loc, key, local_file, inp, orc) ==
  LET download(auth, path, asked, got) ==
        Outcome(got.exc, FALSE, auth, path.b, rem, got.loc,
                IF path.b.nas.filestation = NoFileStation THEN <<>> ELSE <<asked>>)
      rooted(auth, path) ==
        IF path.exc # NoExc THEN Outcome(path.exc, FALSE, auth, path.b, rem, loc, <<>>)
        ELSE download(auth, path, Slash(Slash(path.val, key), local_file),
                      VendorGetFile(path.b.nas.filestation,
                                    Slash(Slash(path.val, key), local_file), rem, loc, orc))
      after(auth) ==
        IF auth.exc # NoExc THEN Outcome(auth.exc, FALSE, auth, auth.b, rem, loc, <<>>)
        ELSE rooted(auth, PathProp(auth.b, conf))
  IN  after(Authenticate(b, conf, w, inp, orc))

\* SynologyRemote.checkpresent
Checkpresent(b, conf, w, rem, loc, key, inp, orc) ==
  LET found(auth, path, there) ==
        Outcome(there.exc, there.val, auth, path.b, rem, loc, <<>>)
      rooted(auth, path) ==
        IF path.exc # NoExc THEN Outcome(path.exc, FALSE, auth, path.b, rem, loc, <<>>)
        ELSE found(auth, path,
                   ExistsCall(path.b.nas.filestation, Slash(path.val, key), rem, orc))
      after(auth) ==
        IF auth.exc # NoExc THEN Outcome(auth.exc, FALSE, auth, auth.b, rem, loc, <<>>)
        ELSE rooted(auth, PathProp(auth.b, conf))
  IN  after(Authenticate(b, conf, w, inp, orc))

\* SynologyRemote.remove: the result of delete_files is dropped
Remove(b, conf, w, rem, loc, key, inp, orc) ==
  LET deleted(auth, path, gone) ==
        Outcome(gone.exc, gone.ret, auth, path.b, gone.rem, loc, <<>>)
      rooted(auth, path) ==
        IF path.exc # NoExc THEN Outcome(path.exc, FALSE, auth, path.b, rem, loc, <<>>)
        ELSE deleted(auth, path,
                     DeleteFiles(path.b.nas.filestation, Slash(path.val, key), rem, orc))
      after(auth) ==
        IF auth.exc # NoExc THEN Outcome(auth.exc, FALSE, auth, auth.b, rem, loc, <<>>)
        ELSE rooted(auth, PathProp(auth.b, conf))
  IN  after(Authenticate(b, conf, w, inp, orc))

\* ------------------------------------------------------------------ run.py

\* setup(hostname, clear_password): what it printed ("found", "failed" or
\* "nothing"), the stores it leaves, and the outcome of its read of
\* creds.username (line 16).  The with statement swallows what the body
\* raises.
Setup(w, clear_password, inp) ==
  LET out(st, printed, first) ==
        [w |-> [db |-> st.db, vault |-> st.vault], printed |-> printed, first |-> first]
      seen(username) == [exc |-> username.exc, val |-> username.val, row |-> username.st.db]
      report(username, password) ==
        IF password.exc # NoExc
          THEN out(password.st, "nothing", seen(username))
        ELSE IF Truthy(username.val) /\ Truthy(password.val)
          THEN out(password.st, "found", seen(username))
        ELSE out(password.st, "failed", seen(username))
      named(username) ==
        IF username.exc # NoExc THEN out(username.st, "nothing", seen(username))
        ELSE report(username, PasswordGet(username.st, inp, 1))
      after(cleared) ==
        IF cleared.exc # NoExc THEN out(cleared.st, "nothing", NoFirst)
        ELSE named(UsernameGet(cleared.st, inp, 1))
  IN  after(IF clear_password
              THEN DeletePassword(NewCredentials(w), inp, 1)
              ELSE COk(None, NewCredentials(w)))

\* ------------------------------------------------------------- the state

VARIABLES
  config,         \* what the host's getconfig answers: hostname, path, protocol
  env,            \* NAS_USERNAME, NAS_PASSWORD, NAS_TOTP_COMMAND
  backend,        \* the SynologyRemote object
  db,             \* the Users row of the hostname: <<>> or <<row>>
  vault,          \* the keyring: account -> password or None
  remote,         \* the NAS: dirs, files, and the paths of accepted delete tasks
  localfs,        \* the local files: "absent", "complete" or "partial"
  nops,           \* operations so far
  sessionsBuilt,  \* FileStation constructions that succeeded
  authAttempts,   \* Credentials scopes the backend opened
  last,           \* the latest operation: its inputs, outcome and what it did
  prev,           \* a summary of the operation before it
  creds,          \* a Credentials object a caller holds: its scope and its fields
  dbfile,         \* config.db as sqlite finds it: "ok", "locked" or "corrupt"
  call            \* the latest direct call of a method of NAS or Credentials

vars ==
  <<config, env, backend, db, vault, remote, localfs, nops, sessionsBuilt, authAttempts,
    last, prev, creds, dbfile, call>>

Share == <<"", "v">>

Annex == <<"", "v", "annex">>

\* The configurations the host hands over.
Configs ==
  { [hostname |-> "nas", path |-> Annex, protocol |-> ""],
    [hostname |-> "nas", path |-> Annex, protocol |-> "ftp"],
    [hostname |-> "nas", path |-> RootEmpty, protocol |-> ""],
    [hostname |-> "", path |-> Annex, protocol |-> ""] }

Envs == [user : {None, "u1"}, pass : {None, "p1"}, totp : {None, "c1"}]

\* What the NAS holds when the process starts: nothing, the share alone,
\* or the annex with key k1 stored by an earlier run.
NasStates ==
  { [dirs |-> {}, files |-> {}, pending |-> {}],
    [dirs |-> {Share}, files |-> {}, pending |-> {}],
    [dirs |-> {Share, Annex, Slash(Annex, "k1")},
     files |-> {Slash(Slash(Annex, "k1"), "f1")}, pending |-> {}] }

\* Credentials.__init__: no connection, nothing cached.
NoCreds ==
  [phase |-> "new", headless |-> FALSE, cache |-> None, reads |-> 0, afterFill |-> 0,
   conn |-> 0, calls |-> 0]

NoCall ==
  [op |-> "none", exc |-> NoExc, val |-> None, path |-> NoPath, recursive |-> FALSE,
   listBad |-> NoPath, listMode |-> "ok", reqs |-> <<>>,
   prevOp |-> "none", prevExc |-> NoExc, prevVal |-> None,
   cacheBefore |-> None, readsBefore |-> 0, rowBefore |-> NoRow,
   vaultBefore |-> [u \in Users |-> None], account |-> None, resolvedRow |-> NoRow]

\* The database and the keyring when the process starts: empty, or what an
\* earlier setup and an earlier run with NAS_TOTP_COMMAND set left behind.
Stores ==
  { [db |-> NoRow, vault |-> [u \in Users |-> None]],
    [db |-> <<[username |-> "u2", totp_command |-> "c2"]>>,
     vault |-> [u \in Users |-> IF u = "u2" THEN "p2" ELSE None]] }

NoOp ==
  [op |-> "none", key |-> None, file |-> None, exc |-> NoExc, ret |-> FALSE,
   hadSession |-> FALSE, session |-> FALSE, attempt |-> "skipped", swallowed |-> NoExc, reqs |-> <<>>,
   missing |-> <<>>, listBad |-> NoPath, createBad |-> NoPath, createMode |-> "ok",
   delete |-> "ok",
   present |-> FALSE, localBefore |-> None, first |-> NoFirst, printed |-> "nothing"]

Summary(l) ==
  [op |-> l.op, key |-> l.key, file |-> l.file, exc |-> l.exc, ret |-> l.ret,
   attempt |-> l.attempt, session |-> l.session, reqs |-> l.reqs]

Init ==
  /\ config \in Configs
  /\ env \in Envs
  /\ backend = NewBackend
  /\ \E w \in Stores : db = w.db /\ vault = w.vault
  /\ remote \in NasStates
  /\ localfs = [f \in LocalFiles |-> IF f = "f1" THEN "complete" ELSE "absent"]
  /\ nops = 0
  /\ sessionsBuilt = 0
  /\ authAttempts = 0
  /\ last = NoOp
  /\ prev = Summary(NoOp)
  /\ creds = NoCreds
  /\ dbfile = "ok"
  /\ call = NoCall

\* ------------------------------------------------------------ the oracles

\* One operation meets at most one fault of the environment: the login is
\* refused, the TOTP command fails, a directory listing or creation fails,
\* or the transfer or the delete request fails.
NoFault == [kind |-> "none", bad |-> NoPath, mode |-> "ok"]

\* The login and the TOTP command are only reached without a session.
AuthFaults ==
  IF backend.filestation = NoFileStation
    THEN {[kind |-> k, bad |-> NoPath, mode |-> "raise"] : k \in {"login", "totp"}}
  ELSE {}

ListFaults == [kind : {"list"}, bad : {RootEmpty, Share, Annex}, mode : {"unsuccessful", "raise"}]

CreateFaults(paths) == [kind : {"create"}, bad : paths, mode : {"unsuccessful", "raise"}]

CallFaults(kind, modes) == [kind : {kind}, bad : {NoPath}, mode : modes]

Oracle(f) ==
  [listBad |-> IF f.kind = "list" THEN f.bad ELSE NoPath,
   listMode |-> IF f.kind = "list" THEN f.mode ELSE "ok",
   createBad |-> IF f.kind = "create" THEN f.bad ELSE NoPath,
   createMode |-> IF f.kind = "create" THEN f.mode ELSE "ok",
   upload |-> IF f.kind = "upload" THEN f.mode ELSE "ok",
   download |-> IF f.kind = "download" THEN f.mode ELSE "ok",
   delete |-> IF f.kind = "delete" THEN f.mode ELSE "ok",
   login |-> IF f.kind = "login" THEN "raise" ELSE "ok",
   totpRun |-> IF f.kind = "totp" THEN "fail" ELSE "ok"]

\* The backend runs the resolver headless.
Headless(orc) ==
  [env |-> env, headless |-> TRUE, promptUser |-> "", promptPass |-> "",
   totpRun |-> orc.totpRun]

World == [db |-> db, vault |-> vault]

\* The directories on the way to path that are not on the NAS, root first.
RECURSIVE MissingChain(_, _)
MissingChain(path, rem) ==
  IF IsRoot(path) \/ Len(path) <= 1 THEN <<>>
  ELSE IF path \in rem.dirs \cup rem.files THEN MissingChain(Parent(path), rem)
  ELSE Append(MissingChain(Parent(path), rem), path)

OnRemote(path) == path \in remote.dirs \cup remote.files

\* The bookkeeping every lifecycle operation shares.
Record(op, key, file, out, orc, target) ==
  /\ nops < MaxOps
  /\ nops' = nops + 1
  /\ backend' = out.b
  /\ db' = out.w.db
  /\ vault' = out.w.vault
  /\ remote' = out.rem
  /\ localfs' = out.loc
  /\ sessionsBuilt' = sessionsBuilt + (IF out.auth.attempt = "built" THEN 1 ELSE 0)
  /\ authAttempts' = authAttempts + (IF out.auth.attempt \in {"failed", "built"} THEN 1 ELSE 0)
  /\ prev' = Summary(last)
  /\ last' = [NoOp EXCEPT
       !.op = op, !.key = key, !.file = file, !.exc = out.exc, !.ret = out.ret,
       !.hadSession = backend.filestation # NoFileStation,
       !.session = out.b.filestation # NoFileStation,
       !.attempt = out.auth.attempt, !.swallowed = out.auth.swallowed,
       !.reqs = out.reqs,
       !.missing = IF op = "prepare" THEN MissingChain(target, remote) ELSE <<>>,
       !.listBad = orc.listBad,
       !.createBad = IF op = "prepare" THEN orc.createBad ELSE NoPath,
       !.createMode = IF op = "prepare" THEN orc.createMode ELSE "ok",
       !.delete = orc.delete,
       !.present = OnRemote(target),
       !.localBefore = IF file = None THEN None ELSE localfs[file],
       !.first = out.auth.first]
  /\ UNCHANGED <<config, env, creds, dbfile, call>>

TargetOf(key) == Slash(config.path, key)

InitremoteOp ==
  \E f \in {NoFault} \cup AuthFaults :
    Record("initremote", None, None,
           Initremote(backend, config, World, remote, localfs, Headless(Oracle(f)), Oracle(f)),
           Oracle(f), NoPath)

PrepareOp ==
  \E f \in {NoFault} \cup AuthFaults \cup ListFaults \cup CreateFaults({Share, Annex}) :
    Record("prepare", None, None,
           Prepare(backend, config, World, remote, localfs, Headless(Oracle(f)), Oracle(f)),
           Oracle(f), config.path)

TransferStoreOp ==
  \E key \in Keys, file \in LocalFiles :
    \E f \in {NoFault} \cup AuthFaults \cup ListFaults
             \cup CreateFaults({Annex, TargetOf(key)})
             \cup CallFaults("upload", {"unsuccessful", "raise"}) :
      Record("transfer_store", key, file,
             TransferStore(backend, config, World, remote, localfs, key, file,
                           Headless(Oracle(f)), Oracle(f)),
             Oracle(f), TargetOf(key))

TransferRetrieveOp ==
  \E key \in Keys, file \in LocalFiles :
    \E f \in {NoFault} \cup AuthFaults \cup CallFaults("download", {"early", "mid"}) :
      Record("transfer_retrieve", key, file,
             TransferRetrieve(backend, config, World, remote, localfs, key, file,
                              Headless(Oracle(f)), Oracle(f)),
             Oracle(f), TargetOf(key))

CheckpresentOp ==
  \E key \in Keys :
    \E f \in {NoFault} \cup AuthFaults \cup ListFaults :
      Record("checkpresent", key, None,
             Checkpresent(backend, config, World, remote, localfs, key,
                          Headless(Oracle(f)), Oracle(f)),
             Oracle(f), TargetOf(key))

RemoveOp ==
  \E key \in Keys :
    \E f \in {NoFault} \cup AuthFaults \cup CallFaults("delete", {"unsuccessful", "raise"}) :
      Record("remove", key, None,
             Remove(backend, config, World, remote, localfs, key,
                    Headless(Oracle(f)), Oracle(f)),
             Oracle(f), TargetOf(key))

\* The setup command, run by the user in a process of its own on the same
\* database and keyring.
SetupOp ==
  /\ nops < MaxOps
  /\ \E clear \in BOOLEAN, typedUser \in {"", "u2"}, typedPass \in {"", "p2"} :
       LET inp == [env |-> env, headless |-> FALSE, promptUser |-> typedUser,
                   promptPass |-> typedPass, totpRun |-> "ok"]
           out == Setup(World, clear, inp)
       IN  /\ db' = out.w.db
           /\ vault' = out.w.vault
           /\ last' = [NoOp EXCEPT !.op = "setup", !.first = out.first,
                                   !.printed = out.printed]
  /\ nops' = nops + 1
  /\ prev' = Summary(last)
  /\ UNCHANGED <<config, env, backend, remote, localfs, sessionsBuilt, authAttempts,
                 creds, dbfile, call>>

IsPrefix(p, q) == Len(p) <= Len(q) /\ SubSeq(q, 1, Len(p)) = p

\* The NAS runs an accepted delete task: the path and all below it go.
VendorDeleteStep ==
  /\ \E p \in remote.pending :
       remote' = [dirs |-> {q \in remote.dirs : ~IsPrefix(p, q)},
                  files |-> {q \in remote.files : ~IsPrefix(p, q)},
                  pending |-> remote.pending \ {p}]
  /\ prev' = Summary(last)
  /\ last' = [NoOp EXCEPT !.op = "vendor_delete"]
  /\ UNCHANGED <<config, env, backend, db, vault, localfs, nops, sessionsBuilt, authAttempts,
                 creds, dbfile, call>>

Next ==
  \/ InitremoteOp
  \/ PrepareOp
  \/ TransferStoreOp
  \/ TransferRetrieveOp
  \/ CheckpresentOp
  \/ RemoveOp
  \/ SetupOp
  \/ VendorDeleteStep

Spec == Init /\ [][Next]_vars

\* ------------------------------------------------- the adapter on its own

\* The methods of NAS called directly, on an adapter bound to a session or
\* to None, with the vendor answering as the oracle says.

NasPaths ==
  { RootEmpty, RootSlash, Share, Annex, Slash(Annex, "k1"),
    Slash(Slash(Annex, "k1"), "f1"), Slash(Annex, "k2") }

Sessions ==
  { NoFileStation, [username |-> "u1", password |-> "p1", secure |-> FALSE, otp |-> None] }

NasInit ==
  /\ config = [hostname |-> "nas", path |-> Annex, protocol |-> ""]
  /\ env = [user |-> None, pass |-> None, totp |-> None]
  /\ backend \in {BindNas(NewBackend, fs) : fs \in Sessions}
  /\ db = NoRow
  /\ vault = [u \in Users |-> None]
  /\ remote \in NasStates
  /\ localfs = [f \in LocalFiles |-> IF f = "f1" THEN "complete" ELSE "absent"]
  /\ nops = 0
  /\ sessionsBuilt = 0
  /\ authAttempts = 0
  /\ last = NoOp
  /\ prev = Summary(NoOp)
  /\ creds = NoCreds
  /\ dbfile = "ok"
  /\ call = NoCall

NasFrame ==
  UNCHANGED <<config, env, backend, db, vault, localfs, nops, sessionsBuilt, authAttempts,
              last, prev, creds, dbfile>>

\* self._nas.exists(path)
ExistsOp ==
  /\ \E path \in NasPaths, f \in {NoFault} \cup ListFaults :
       LET r == ExistsCall(backend.nas.filestation, path, remote, Oracle(f))
       IN  call' = [NoCall EXCEPT !.op = "exists", !.path = path, !.exc = r.exc,
                                  !.val = r.val, !.listBad = Oracle(f).listBad,
                                  !.listMode = Oracle(f).listMode]
  /\ UNCHANGED remote
  /\ NasFrame

\* self._nas.list_structure(path, recursive)
ListStructureOp ==
  /\ \E path \in NasPaths, recursive \in BOOLEAN, f \in {NoFault} \cup ListFaults :
       LET r == ListStructure(backend.nas.filestation, path, recursive, remote, Oracle(f))
       IN  call' = [NoCall EXCEPT !.op = "list_structure", !.path = path,
                                  !.recursive = recursive, !.exc = r.exc, !.val = r.val,
                                  !.listBad = Oracle(f).listBad,
                                  !.listMode = Oracle(f).listMode]
  /\ UNCHANGED remote
  /\ NasFrame

\* self._nas.create_folder(path)
CreateFolderOp ==
  /\ \E path \in NasPaths,
        f \in {NoFault} \cup ListFaults \cup CreateFaults({Share, Annex}) :
       LET r == CreateFolder(backend.nas.filestation, path, remote, Oracle(f))
       IN  /\ remote' = r.rem
           /\ call' = [NoCall EXCEPT !.op = "create_folder", !.path = path, !.exc = r.exc,
                                      !.val = r.ret, !.reqs = r.reqs,
                                      !.listBad = Oracle(f).listBad,
                                      !.listMode = Oracle(f).listMode]
  /\ NasFrame

NasNext ==
  \/ ExistsOp
  \/ ListStructureOp
  \/ CreateFolderOp

NasSpec == NasInit /\ [][NasNext]_vars

\* ------------------------------------------------ the resolver on its own

\* One "with Credentials(hostname, headless) as creds" scope: __enter__, the
\* calls its body makes, __exit__.  A call that raises leaves the body.

CredInit ==
  /\ config = [hostname |-> "nas", path |-> Annex, protocol |-> ""]
  /\ env \in Envs
  /\ backend = NewBackend
  /\ \E w \in Stores : db = w.db /\ vault = w.vault
  /\ remote = [dirs |-> {}, files |-> {}, pending |-> {}]
  /\ localfs = [f \in LocalFiles |-> IF f = "f1" THEN "complete" ELSE "absent"]
  /\ nops = 0
  /\ sessionsBuilt = 0
  /\ authAttempts = 0
  /\ last = NoOp
  /\ prev = Summary(NoOp)
  /\ creds = NoCreds
  /\ dbfile \in {"ok", "locked", "corrupt"}
  /\ call = NoCall

CredFrame ==
  UNCHANGED <<config, env, backend, remote, localfs, nops, sessionsBuilt, authAttempts,
              last, prev>>

\* Credentials.__enter__, lines 157-161: connect() and cursor().  sqlite
\* opens the file lazily: a locked or corrupt file shows at the first
\* statement.
EnterOp ==
  /\ creds.phase = "new"
  /\ \E h \in BOOLEAN : creds' = [creds EXCEPT !.phase = "creating", !.headless = h, !.conn = 1]
  /\ UNCHANGED <<db, vault, dbfile, call>>
  /\ CredFrame

\* One call of _create_users_table (__enter__, line 163).  On a locked file
\* CREATE TABLE raises OperationalError, which the backoff decorator
\* catches; on a corrupt file it raises DatabaseError, which leaves
\* __enter__: the with statement never calls __exit__.
CreateUsersTableStep ==
  /\ creds.phase = "creating"
  /\ creds' = [creds EXCEPT !.phase = IF dbfile = "ok" THEN "open"
                                      ELSE IF dbfile = "locked" THEN "backoff"
                                      ELSE "raised"]
  /\ UNCHANGED <<db, vault, dbfile, call>>
  /\ CredFrame

\* @backoff.on_exception(backoff.expo, OperationalError): sleep, then call
\* again.  The decorator is given neither max_tries nor max_time.
BackoffRetry ==
  /\ creds.phase = "backoff"
  /\ creds' = [creds EXCEPT !.phase = "creating"]
  /\ UNCHANGED <<db, vault, dbfile, call>>
  /\ CredFrame

\* The process holding the lock on config.db releases it.
UnlockStep ==
  /\ dbfile = "locked"
  /\ dbfile' = "ok"
  /\ UNCHANGED <<db, vault, creds, call>>
  /\ CredFrame

\* The fields of the open Credentials object and the stores it works on.
CredSt ==
  [cache |-> creds.cache, db |-> db, vault |-> vault, reads |-> creds.reads,
   afterFill |-> creds.afterFill]

\* The environment of a call: what the user types at a prompt, how the TOTP
\* command ends.
CredInputs ==
  [env : {env}, headless : {creds.headless}, promptUser : {"", "u2"},
   promptPass : {"", "p2"}, totpRun : {"ok", "fail"}]

\* The user name a resolution after the call gives, None when it raises.
AccountOf(r, inp) ==
  LET who(u) == IF u.exc = NoExc THEN u.val ELSE None
  IN  who(UsernameGet(r.st, inp, 1))

\* A call the body makes on creds: r is [exc, val, st].  An exception leaves
\* the with statement, whose __exit__ closes the connection.
Called(op, r, val, account, resolvedRow) ==
  /\ creds.phase = "open"
  /\ creds.calls < MaxCalls
  /\ db' = r.st.db
  /\ vault' = r.st.vault
  /\ creds' = [creds EXCEPT !.cache = r.st.cache, !.reads = r.st.reads,
                            !.afterFill = r.st.afterFill, !.calls = @ + 1,
                            !.phase = IF r.exc = NoExc THEN "open" ELSE "left",
                            !.conn = IF r.exc = NoExc THEN @ ELSE 0]
  /\ call' = [NoCall EXCEPT !.op = op, !.exc = r.exc, !.val = val,
                            !.prevOp = call.op, !.prevExc = call.exc, !.prevVal = call.val,
                            !.cacheBefore = creds.cache, !.readsBefore = creds.reads,
                            !.rowBefore = db, !.vaultBefore = vault,
                            !.account = account, !.resolvedRow = resolvedRow]
  /\ UNCHANGED dbfile
  /\ CredFrame

\* creds.username
ReadUsernameOp ==
  \E inp \in CredInputs :
    LET r == UsernameGet(CredSt, inp, 1)
    IN  Called("username", r, r.val, None, NoRow)

\* creds.password
ReadPasswordOp ==
  \E inp \in CredInputs :
    LET r == PasswordGet(CredSt, inp, 1)
    IN  Called("password", r, r.val, AccountOf(r, inp), NoRow)

\* creds.totp_command
ReadTotpCommandOp ==
  \E inp \in CredInputs :
    LET r == TotpCommandGet(CredSt, inp, 1)
    IN  Called("totp_command", r, r.val, None, NoRow)

\* creds.totp
ReadTotpOp ==
  \E inp \in CredInputs :
    LET r == Totp(CredSt, inp, 1)
    IN  Called("totp", r, r.val, None, NoRow)

\* creds.username = "u1"
SetUsernameOp ==
  \E inp \in CredInputs :
    LET r == UsernameSet(CredSt, "u1", inp, 1)
    IN  Called("set_username", r, "u1", None, NoRow)

\* creds.password = "p1"
SetPasswordOp ==
  \E inp \in CredInputs :
    LET r == SavePassword(CredSt, "p1", inp, 1)
    IN  Called("set_password", r, "p1", AccountOf(r, inp), NoRow)

\* creds.totp_command = "c1"
SetTotpCommandOp ==
  \E inp \in CredInputs :
    LET r == TotpCommandSet(CredSt, "c1", inp, 1)
    IN  Called("set_totp_command", r, "c1", None, NoRow)

\* creds.delete_password(); resolvedRow is the row that resolving the user
\* name alone leaves.
DeletePasswordOp ==
  \E inp \in CredInputs :
    LET r == DeletePassword(CredSt, inp, 1)
        u == UsernameGet(CredSt, inp, 1)
    IN  Called("delete_password", r, r.val,
               IF u.exc = NoExc THEN u.val ELSE None, u.st.db)

\* The body ends: Credentials.__exit__ closes cursor and connection.
ExitOp ==
  /\ creds.phase = "open"
  /\ creds' = [creds EXCEPT !.phase = "left", !.conn = 0]
  /\ UNCHANGED <<db, vault, dbfile, call>>
  /\ CredFrame

CredNext ==
  \/ EnterOp
  \/ CreateUsersTableStep
  \/ BackoffRetry
  \/ UnlockStep
  \/ ReadUsernameOp
  \/ ReadPasswordOp
  \/ ReadTotpCommandOp
  \/ ReadTotpOp
  \/ SetUsernameOp
  \/ SetPasswordOp
  \/ SetTotpCommandOp
  \/ DeletePasswordOp
  \/ ExitOp

CredSpec == CredInit /\ [][CredNext]_vars

\* The interpreter goes on executing __enter__: an attempt or a backoff
\* sleep that can be taken is taken.
CredLive ==
  CredSpec /\ WF_vars(CreateUsersTableStep) /\ WF_vars(BackoffRetry)

\* -------------------------------------------------------------- the claims

Lifecycle ==
  {"initremote", "prepare", "transfer_store", "transfer_retrieve", "checkpresent", "remove"}

HasSession == backend.filestation # NoFileStation

\* C1: checkPresent returns false only when the remote was reached and
\* rootPath/key is not on it; when there is no session, or the listing
\* fails, it raises instead of returning false.
C1_FalseMeansAbsent ==
  (last.op = "checkpresent" /\ last.exc = NoExc /\ ~last.ret)
    => (last.session /\ ~last.present)

\* C2: a lifecycle operation whose authentication cannot be completed (no
\* username or password in headless mode, or the login raises) raises
\* RemoteError; none returns normally to the host without a session.
C2_AuthFailureRaises ==
  /\ (last.op \in Lifecycle /\ last.attempt = "failed"
        /\ last.swallowed \in {"RemoteError", "VendorError"})
       => last.exc = "RemoteError"
  /\ (last.op \in Lifecycle /\ last.exc = NoExc) => last.session

\* C3: transferStore(key, file) that returned without error, followed
\* immediately by checkPresent(key), makes checkPresent return true (the
\* listings of checkPresent succeeding).
C3_StoreThenPresent ==
  (prev.op = "transfer_store" /\ prev.exc = NoExc
     /\ last.op = "checkpresent" /\ last.key = prev.key /\ last.listBad = NoPath)
    => (last.exc = NoExc /\ last.ret)

\* C4: remove(key) that returned without error, followed by
\* checkPresent(key), makes checkPresent return false (the listings of
\* checkPresent succeeding).
C4_RemoveThenAbsent ==
  (prev.op = "remove" /\ prev.exc = NoExc
     /\ last.op = "checkpresent" /\ last.key = prev.key /\ last.listBad = NoPath)
    => (last.exc = NoExc /\ ~last.ret)

\* C5: transferRetrieve never leaves a partially written file at localFile:
\* after a failed download the destination does not exist or is what it was
\* before the call.
C5_NoPartialFile ==
  (last.op = "transfer_retrieve" /\ last.exc # NoExc)
    => (localfs[last.file] = "absent" \/ localfs[last.file] = last.localBefore)

\* Two consecutive calls of createFolder(rootPath) on a backend with a
\* session: prepare() twice in a row.
TwoCreateFolders ==
  /\ prev.op = "prepare" /\ prev.session /\ last.op = "prepare"
  /\ config.path # RootEmpty

\* C6, as the spec states it: for every path, two consecutive createFolder
\* calls both report success and the second issues no create request.
C6_Idempotent ==
  TwoCreateFolders
    => (prev.ret /\ last.ret /\ last.exc = NoExc /\ last.reqs = <<>>)

\* C6, amended: when the first createFolder(p) reported success and every
\* directory listing of the second call succeeds, the second call reports
\* success and issues no create request.
C6_IdempotentAfterSuccess ==
  (TwoCreateFolders /\ prev.ret /\ last.listBad = NoPath)
    => (last.ret /\ last.exc = NoExc /\ last.reqs = <<>>)

\* The first createFolder created the directories, the second ran.
C6_Witness ==
  TwoCreateFolders /\ prev.ret /\ Len(prev.reqs) > 0 /\ last.listBad = NoPath /\ last.ret

Position(seq, x) == IF Contains(seq, x) THEN CHOOSE i \in 1..Len(seq) : seq[i] = x ELSE 0

\* What prepare() is to request and to answer for the directories in
\* missing when the create of directory bad fails with mode.
ExpectedReqs(missing, bad) ==
  IF Position(missing, bad) = 0 THEN missing ELSE SubSeq(missing, 1, Position(missing, bad))

ExpectedExc(missing, bad, mode) ==
  IF Position(missing, bad) = 0 THEN NoExc
  ELSE IF mode = "unsuccessful" THEN "RemoteError" ELSE "VendorError"

\* prepare() on a backend with a session, for a root path that was absent.
PrepareAbsent ==
  last.op = "prepare" /\ last.session /\ Len(last.missing) > 0

\* C7, as the spec states it: prepare() for an absent root path requests
\* the missing directories root first and no directory that exists, and
\* returns; an unsuccessful create stops the chain and raises RemoteError.
C7_CreateChain ==
  (PrepareAbsent /\ last.createMode # "raise")
    => /\ last.reqs = ExpectedReqs(last.missing, last.createBad)
       /\ last.exc = ExpectedExc(last.missing, last.createBad, last.createMode)

\* C7, amended: the same, provided every directory listing made during the
\* call succeeds; a create request that raises ends the chain with the
\* vendor's exception.
C7_CreateChainWhenListed ==
  (PrepareAbsent /\ last.listBad = NoPath)
    => /\ last.reqs = ExpectedReqs(last.missing, last.createBad)
       /\ last.exc = ExpectedExc(last.missing, last.createBad, last.createMode)

\* prepare() created the share and the annex directory, in that order.
C7_Witness ==
  PrepareAbsent /\ last.listBad = NoPath /\ last.exc = NoExc /\ last.reqs = <<Share, Annex>>

\* C8: a session is constructed at most once; once it exists no operation
\* opens the resolver, constructs a session or replaces the session.
C8_SessionOnce ==
  [][/\ sessionsBuilt' <= 1
     /\ HasSession => /\ backend'.filestation = backend.filestation
                      /\ sessionsBuilt' = sessionsBuilt
                      /\ authAttempts' = authAttempts]_vars

\* A lifecycle operation ran on a backend that already had its session.
C8_Witness == last.op \in Lifecycle /\ last.hadSession /\ sessionsBuilt = 1

\* C9: a failed authentication leaves the backend without a session; an
\* operation invoked without a session opens the resolver again; an attempt
\* that succeeds leaves the session in place with the adapter bound to it.
C9_RetryAfterFailure ==
  last.op \in Lifecycle =>
    /\ (~last.hadSession /\ Truthy(config.hostname)) => last.attempt \in {"failed", "built"}
    /\ last.attempt \in {"config", "failed"} => ~HasSession
    /\ last.attempt = "built" =>
         /\ HasSession
         /\ backend.nas.bound
         /\ backend.nas.filestation = backend.filestation

\* An attempt failed and the next operation's attempt succeeded.
C9_Witness ==
  /\ prev.op \in Lifecycle /\ prev.attempt = "failed"
  /\ last.op \in Lifecycle /\ last.attempt = "built"

\* C10: with NAS_USERNAME set, reading username returns the environment
\* value, and the row of the hostname holds that value when it returns.
C10_EnvOverride ==
  (Truthy(env.user) /\ last.first.exc # "unread")
    => /\ last.first.exc = NoExc
       /\ last.first.val = env.user
       /\ last.first.row # NoRow
       /\ last.first.row[1].username = env.user

\* transferStore(key, f1) returned and its upload is on the NAS; the next
\* operation is transferRetrieve(key, f2), which reached the vendor.
StoredThenRetrieved ==
  /\ prev.op = "transfer_store" /\ prev.exc = NoExc
  /\ Slash(TargetOf(prev.key), prev.file) \in remote.files
  /\ last.op = "transfer_retrieve" /\ last.key = prev.key /\ last.session

\* C21: after transferStore(key, f1) has completed, transferRetrieve(key, f2)
\* requests from the vendor exactly the file transferStore uploaded under
\* rootPath/key, for every pair of local files f1 and f2.
C21_RetrieveRequestsStored ==
  StoredThenRetrieved => last.reqs = <<Slash(TargetOf(prev.key), prev.file)>>

\* C12: a failure of the one-time-code command does not fail the
\* authentication: an attempt that meets no other failure constructs the
\* session, and without a configured command the session carries no code.
C12_TotpFailureTolerated ==
  (last.op \in Lifecycle /\ last.attempt \in {"failed", "built"}
     /\ last.swallowed \in {NoExc, "CalledProcessError"})
    => /\ last.attempt = "built"
       /\ (db = NoRow \/ ~Truthy(db[1].totp_command)) => backend.filestation.otp = None

\* C13: remove(key) raises when the delete request is not accepted, and
\* transferStore(key, file) raises when the container rootPath/key could not
\* be created.
C13_VendorFailureRaises ==
  /\ (last.op = "remove" /\ last.session /\ last.delete = "unsuccessful")
       => last.exc # NoExc
  /\ (last.op = "transfer_store" /\ last.session /\ TargetOf(last.key) \notin remote.dirs)
       => last.exc # NoExc

\* C14: with a protocol other than http or https, a lifecycle operation
\* that authenticates (here with the credentials in the environment, so
\* that nothing else fails) raises RemoteError and creates no session.
C14_BadProtocolFatal ==
  (last.op \in Lifecycle /\ config.protocol \notin {"", "http", "https"}
     /\ Truthy(env.user) /\ Truthy(env.pass) /\ ~Truthy(env.totp))
    => (last.exc = "RemoteError" /\ ~last.session)

\* C19: every run of setup reports that the credentials were obtained or
\* that they were not.
C19_SetupReports ==
  last.op = "setup" => last.printed \in {"found", "failed"}

\* C17: exists(path) never raises; it is true for the root path, and false
\* when the adapter has no session, when the listing of the parent raises or
\* is unsuccessful, and when path is not on the NAS.
C17_ExistsNeverRaises ==
  call.op = "exists" =>
    /\ call.exc = NoExc
    /\ IsRoot(call.path) => call.val
    /\ (/\ ~IsRoot(call.path)
        /\ \/ backend.nas.filestation = NoFileStation
           \/ call.listBad = Parent(call.path)
           \/ ~OnRemote(call.path))
       => ~call.val

\* exists was asked for a path that is on the NAS while the listing of its
\* parent raised.
C17_Witness ==
  /\ call.op = "exists" /\ OnRemote(call.path)
  /\ call.listBad = Parent(call.path) /\ call.listMode = "raise"
  /\ call.exc = NoExc /\ ~call.val

RECURSIVE DepthFirst(_, _)
RECURSIVE DepthFirstEach(_, _)

IsDir(entry) == entry.isdir

\* The listing the vendor gives for directory d, followed by the depth-first
\* contents of each of its directories, in the order the vendor lists them.
DepthFirst(d, rem) ==
  PathsOf(Children(rem, d)) \o DepthFirstEach(SelectSeq(Children(rem, d), IsDir), rem)

DepthFirstEach(entries, rem) ==
  IF Len(entries) = 0 THEN <<>>
  ELSE DepthFirst(Head(entries).path, rem) \o DepthFirstEach(Tail(entries), rem)

\* list_structure(path, recursive=True) was called for a path that exists,
\* on an adapter with a session, and every listing the vendor was asked for
\* succeeded.
ListedRecursively ==
  /\ call.op = "list_structure" /\ call.recursive
  /\ IsRoot(call.path) \/ OnRemote(call.path)
  /\ backend.nas.filestation # NoFileStation
  /\ call.listBad = NoPath

\* C22: listStructure(path, recursive=true) raises nothing and returns, for
\* every existing path, the root included (its children are the top-level
\* shares), the children's paths followed by the depth-first contents of
\* each child directory, in the order the vendor listed them.
C22_RecursiveListing ==
  ListedRecursively =>
    /\ call.exc = NoExc
    /\ call.val = DepthFirst(IF IsRoot(call.path) THEN RootEmpty ELSE call.path, remote)

\* C11: two consecutive resolutions of username in one scope return the
\* same value; once a user name is cached a resolution that finds
\* NAS_USERNAME unset reads no row, and at most one SELECT of the username
\* is made with a user name cached.
C11_SameValueFromCache ==
  (call.op = "username" /\ call.exc = NoExc) =>
    /\ (call.prevOp = "username" /\ call.prevExc = NoExc) => call.val = call.prevVal
    /\ (Truthy(call.cacheBefore) /\ ~Truthy(env.user)) =>
         (call.val = call.cacheBefore /\ creds.reads = call.readsBefore)
    /\ creds.afterFill <= 1

\* The first resolution prompted and cached the user name, the second was
\* answered from the cache.
C11_Witness ==
  /\ call.op = "username" /\ call.exc = NoExc
  /\ call.prevOp = "username" /\ call.prevExc = NoExc
  /\ Truthy(call.cacheBefore) /\ ~Truthy(env.user)
  /\ call.val = call.prevVal

\* C23: on an open resolver a read of username or of totpCommand returns a
\* value or raises an error of its own, whatever the environment variables
\* and the row are: the two resolutions never call each other without end,
\* which the interpreter would stop with RecursionError.
C23_ResolutionTerminates ==
  call.op \in {"username", "totp_command"} => call.exc # "RecursionError"

\* C15: when the database stays locked, the retries of the table creation
\* end and the error surfaces: a backoff is followed by the error leaving
\* __enter__, unless the lock was released.
C15_RetryGivesUp ==
  (creds.phase = "backoff") ~> (creds.phase = "raised" \/ dbfile # "locked")

\* C16, as the spec states it: the row of the hostname is the same before
\* and after deletePassword, whatever the environment and the database.
C16_DeleteLeavesRow ==
  call.op = "delete_password" => db = call.rowBefore

\* C16, amended: deletePassword changes the vault in the entry of the
\* resolved username only, and the row only as the resolution of the
\* username it performs does; with NAS_USERNAME unset and a username in the
\* row or in the cache, the row is the same before and after.
C16_DeleteOnlyVaultEntry ==
  call.op = "delete_password" =>
    /\ db = call.resolvedRow
    /\ \A u \in Users : u # call.account => vault[u] = call.vaultBefore[u]
    /\ call.exc = NoExc => (call.account \in Users /\ vault[call.account] = None)
    /\ (/\ ~Truthy(env.user)
        /\ \/ Truthy(call.cacheBefore)
           \/ (call.rowBefore # NoRow /\ Truthy(call.rowBefore[1].username)))
       => db = call.rowBefore

\* deletePassword removed a stored password and left the row as it was.
C16_Witness ==
  /\ call.op = "delete_password" /\ call.exc = NoExc
  /\ call.vaultBefore[call.account] # None /\ vault[call.account] = None
  /\ db # NoRow /\ db = call.rowBefore

\* The values that are passwords: NAS_PASSWORD, what the user types at the
\* password prompt, what the setter is given, what the keyring held.
Passwords == {"p1", "p2"}

\* C18: a row holds a username and a totp command and no password; a
\* password that was resolved or set is in the vault under the resolved
\* username.
C18_PasswordOnlyInVault ==
  /\ db # NoRow =>
       /\ DOMAIN db[1] = {"username", "totp_command"}
       /\ db[1].username \notin Passwords
       /\ db[1].totp_command \notin Passwords
  /\ (call.op \in {"password", "set_password"} /\ call.exc = NoExc) =>
       (call.account \in Users /\ vault[call.account] = call.val)

\* A password was resolved and stored by the call, with a row present.
C18_Witness ==
  /\ call.op = "password" /\ call.exc = NoExc /\ call.account \in Users
  /\ call.vaultBefore[call.account] = None /\ vault[call.account] = call.val
  /\ db # NoRow

\* C20: a scope that was left, through the end of its body, through an
\* exception of the body or through an exception of __enter__, holds no
\* open connection.
C20_ScopeClosesConnection ==
  creds.phase \in {"left", "raised"} => creds.conn = 0

====
